---------------------------- MODULE Spec2Model ----------------------------
(***************************************************************************)
(* Model of the authentication and brute-force-defence core of            *)
(* cool-backend: AuthManager (src/auth.py) and the /auth/login endpoint    *)
(* (src/main.py) over the tables of src/models.py.                         *)
(*                                                                         *)
(* Time is counted in whole minutes (every duration of the code is a       *)
(* timedelta(minutes=..)); a number of seconds reported to the client is   *)
(* the number of minutes times 60.                                         *)
(***************************************************************************)
EXTENDS Integers, Sequences, FiniteSets, Bags, TLC

(* ------------------------- program constants -------------------------- *)

MAX_LOGIN_ATTEMPTS == 5

COOLDOWN_MINUTES == 15

MAX_IP_ATTEMPTS == 10

IP_COOLDOWN_MINUTES == 30

MAX_FAILED_ATTEMPTS_PER_IP == 15

\* timedelta(minutes=30) of the login endpoint
TOKEN_MINUTES == 30

\* a nullable DateTime column holding NULL
None == -1

(* ------------------------------ bounds -------------------------------- *)

\* the clock of Spec stops advancing at this minute
MaxTime == 15

\* the clock of SpecSrc stops advancing at this minute
MaxTimeSrc == 45

\* the failed_login_attempts table holds at most this many rows
MaxLedger == 11

\* the requests SpecConc handles at the same time, each on its own worker
NumWorkers == 2

(* ------------------------------ inputs -------------------------------- *)

\* request.client.host, or "unknown" when the request carries no client
IPs == {"10.0.0.1", "unknown"}

\* form_data.username; only "alice" is a row of auth.users
Usernames == {"alice", "ALICE", "mallory"}

Passwords == {"secret", "wrong"}

\* the user-agent header; "unknown" is the endpoint's default
Agents == {"unknown", "Mozilla/5.0 (X11)"}

AllRequests ==
    [username : Usernames, password : Passwords, ip : IPs, agent : Agents]

\* the requests of Spec: every credential case from a known address, and an
\* unknown username from a request without client address
Requests ==
    {r \in AllRequests :
        /\ r.agent = "Mozilla/5.0 (X11)"
        /\ r.ip = "unknown" => r.username = "mallory"
        /\ r.username = "mallory" => r.password = "wrong"
        /\ r.username = "ALICE" => r.password = "secret"}

\* the requests of SpecSrc: one address that fails with an unknown username
\* or presents the right credentials of alice
SrcRequests ==
    {r \in AllRequests :
        /\ r.ip = "10.0.0.1"
        /\ \/ r.username = "mallory" /\ r.password = "wrong"
           \/ r.username = "alice" /\ r.password = "secret"}

\* how far the clock moves between two requests
TickSteps == {COOLDOWN_MINUTES - 1, COOLDOWN_MINUTES}

VARIABLES
    now,        \* datetime.utcnow(), in minutes
    users,      \* auth.users: username -> row
    attempts,   \* auth.failed_login_attempts: a bag of rows
    call,       \* what the most recent authenticate_user call did
    resp,       \* the HTTP response of the most recent login request
    pc,         \* SpecConc: where each worker is in authenticate_user
    sess,       \* SpecConc: each worker's request and ORM session
    redis,      \* the Redis keys of SessionManager and SecurityMiddleware
    job,        \* each worker's SessionManager or middleware call in progress
    out         \* what the most recent call outside /auth/login returned

vars == <<now, users, attempts, call, resp, pc, sess, redis, job, out>>

\* what /auth/login and AuthManager.authenticate_user never touch
redis_vars == <<redis, job, out>>

\* what SessionManager, the middleware and /auth/me never touch
auth_vars == <<users, attempts, call, resp, pc, sess>>

Workers == 1..NumWorkers

(* ------------------------------ helpers ------------------------------- *)

\* str.lower()
lower(s) == IF s = "ALICE" THEN "alice" ELSE s

\* len(user_agent)
StrLen(s) == CASE s = "unknown" -> 7
               [] s = "Mozilla/5.0 (X11)" -> 17
               [] OTHER -> 0

\* bcrypt.hashpw with the row's salt
get_password_hash(password) == <<"bcrypt", password>>

\* bcrypt.checkpw
verify_password(plain_password, hashed_password) ==
    get_password_hash(plain_password) = hashed_password

\* the largest attempt_time of a non-empty selection of rows
LatestTime(rows) ==
    CHOOSE t \in {e.t : e \in DOMAIN rows} :
        \A e \in DOMAIN rows : e.t <= t

\* the rows of a table (a bag of rows) that a filter keeps
Filter(table, kept) ==
    [e \in kept \cap DOMAIN table |-> table[e]]

(* ------------------------- AuthManager (auth.py) ---------------------- *)

\* variant of RecentFailures: the attempt_time filter left out
RecentFailures_AnyTime(ledger, t, client_ip) ==
    Filter(ledger, {e \in DOMAIN ledger : e.ip = client_ip})

\* the rows of one address whose attempt_time is inside the cooldown period
RecentFailures(ledger, t, client_ip) ==
    Filter(ledger, {e \in DOMAIN ledger :
                       e.ip = client_ip /\ e.t >= t - IP_COOLDOWN_MINUTES})

\* variant of check_ip_cooldown: the threshold compared with > instead of >=
check_ip_cooldown_Over(ledger, t, client_ip) ==
    IF client_ip = "" \/ client_ip = "unknown"
    THEN [is_blocked |-> FALSE, remaining_time |-> 0,
          failed_attempts |-> 0, cooldown_until |-> None]
    ELSE LET recent_failures == RecentFailures(ledger, t, client_ip)
             n == BagCardinality(recent_failures)
             cooldown_until ==
                 IF n = 0 THEN None
                 ELSE LatestTime(recent_failures) + IP_COOLDOWN_MINUTES
         IN  IF n > MAX_IP_ATTEMPTS /\ cooldown_until > t
             THEN [is_blocked |-> TRUE,
                   remaining_time |-> (cooldown_until - t) * 60,
                   failed_attempts |-> n,
                   cooldown_until |-> cooldown_until]
             ELSE [is_blocked |-> FALSE, remaining_time |-> 0,
                   failed_attempts |-> n, cooldown_until |-> None]

\* variant of check_ip_cooldown: the remaining time is the whole cooldown
\* period, not what is left of it
check_ip_cooldown_FullPeriod(ledger, t, client_ip) ==
    IF client_ip = "" \/ client_ip = "unknown"
    THEN [is_blocked |-> FALSE, remaining_time |-> 0,
          failed_attempts |-> 0, cooldown_until |-> None]
    ELSE LET recent_failures == RecentFailures(ledger, t, client_ip)
             n == BagCardinality(recent_failures)
             cooldown_until ==
                 IF n = 0 THEN None
                 ELSE LatestTime(recent_failures) + IP_COOLDOWN_MINUTES
         IN  IF n >= MAX_IP_ATTEMPTS /\ cooldown_until > t
             THEN [is_blocked |-> TRUE,
                   remaining_time |-> IP_COOLDOWN_MINUTES * 60,
                   failed_attempts |-> n,
                   cooldown_until |-> cooldown_until]
             ELSE [is_blocked |-> FALSE, remaining_time |-> 0,
                   failed_attempts |-> n, cooldown_until |-> None]

\* variant of check_ip_cooldown: still blocked at the instant cooldown_until
check_ip_cooldown_Inclusive(ledger, t, client_ip) ==
    IF client_ip = "" \/ client_ip = "unknown"
    THEN [is_blocked |-> FALSE, remaining_time |-> 0,
          failed_attempts |-> 0, cooldown_until |-> None]
    ELSE LET recent_failures == RecentFailures(ledger, t, client_ip)
             n == BagCardinality(recent_failures)
             cooldown_until ==
                 IF n = 0 THEN None
                 ELSE LatestTime(recent_failures) + IP_COOLDOWN_MINUTES
         IN  IF n >= MAX_IP_ATTEMPTS /\ cooldown_until >= t
             THEN [is_blocked |-> TRUE,
                   remaining_time |-> (cooldown_until - t) * 60,
                   failed_attempts |-> n,
                   cooldown_until |-> cooldown_until]
             ELSE [is_blocked |-> FALSE, remaining_time |-> 0,
                   failed_attempts |-> n, cooldown_until |-> None]

check_ip_cooldown(ledger, t, client_ip) ==
    IF client_ip = "" \/ client_ip = "unknown"
    THEN [is_blocked |-> FALSE, remaining_time |-> 0,
          failed_attempts |-> 0, cooldown_until |-> None]
    ELSE LET recent_failures == RecentFailures(ledger, t, client_ip)
             n == BagCardinality(recent_failures)
             cooldown_until ==
                 IF n = 0 THEN None
                 ELSE LatestTime(recent_failures) + IP_COOLDOWN_MINUTES
         IN  IF n >= MAX_IP_ATTEMPTS /\ cooldown_until > t
             THEN [is_blocked |-> TRUE,
                   remaining_time |-> (cooldown_until - t) * 60,
                   failed_attempts |-> n,
                   cooldown_until |-> cooldown_until]
             ELSE [is_blocked |-> FALSE, remaining_time |-> 0,
                   failed_attempts |-> n, cooldown_until |-> None]

\* variant of log_failed_attempt: an unknown username is not recorded
log_failed_attempt_KnownOnly(ledger, t, username, client_ip, failure_reason) ==
    IF failure_reason = "INVALID_USERNAME"
    THEN ledger
    ELSE ledger (+) SetToBag({[username |-> lower(username),
                               ip |-> client_ip,
                               reason |-> failure_reason, t |-> t]})

log_failed_attempt(ledger, t, username, client_ip, failure_reason) ==
    ledger (+) SetToBag({[username |-> lower(username), ip |-> client_ip,
                          reason |-> failure_reason, t |-> t]})

\* returns the ledger and the security events after the call
increment_ip_failed_attempts(ledger, events, t, client_ip, username, failure_reason) ==
    IF client_ip = "" \/ client_ip = "unknown"
    THEN [attempts |-> ledger, events |-> events]
    ELSE LET logged == log_failed_attempt(ledger, t, username, client_ip,
                                          failure_reason)
             ip_status == check_ip_cooldown(logged, t, client_ip)
         IN  [attempts |-> logged,
              events |-> IF ip_status.failed_attempts >= MAX_IP_ATTEMPTS
                         THEN Append(events, "IP_COOLDOWN_TRIGGERED")
                         ELSE events]

get_user_by_username(rows, username) ==
    IF lower(username) \in DOMAIN rows THEN lower(username) ELSE "none"

_is_suspicious_activity(ledger, t, client_ip, user_agent) ==
    LET last_hour == t - 60
        ip_attempts ==
            BagCardinality(Filter(ledger, {e \in DOMAIN ledger :
                                              e.ip = client_ip /\ e.t >= last_hour}))
    IN  /\ client_ip # ""
        /\ \/ ip_attempts >= MAX_FAILED_ATTEMPTS_PER_IP
           \/ user_agent # "" /\ StrLen(user_agent) < 10

\* variant of reset_login_attempts: cooldown_until is left as it is
reset_login_attempts_KeepCooldown(row) ==
    [row EXCEPT !.login_attempts = 0]

reset_login_attempts(row) ==
    [row EXCEPT !.login_attempts = 0, !.cooldown_until = None]

\* variant of UserLocked: STEP 4 left out
UserLocked_Never(row, t) == FALSE

\* variant of UserLocked: the lockout ends one minute early
UserLocked_Early(row, t) ==
    row.cooldown_until # None /\ row.cooldown_until > t + 1

\* the user-level cooldown test of STEP 4
UserLocked(row, t) ==
    row.cooldown_until # None /\ row.cooldown_until > t

\* variant of FailedPassword: the lockout test compares with > instead of >=
FailedPassword_Over(row, t) ==
    LET n == row.login_attempts + 1
    IN  [row EXCEPT !.login_attempts = n,
                    !.cooldown_until =
                        IF n > MAX_LOGIN_ATTEMPTS
                        THEN t + COOLDOWN_MINUTES
                        ELSE row.cooldown_until]

\* variant of FailedPassword: the lockout is set only when the counter is
\* exactly at the threshold
FailedPassword_Exactly(row, t) ==
    LET n == row.login_attempts + 1
    IN  [row EXCEPT !.login_attempts = n,
                    !.cooldown_until =
                        IF n = MAX_LOGIN_ATTEMPTS
                        THEN t + COOLDOWN_MINUTES
                        ELSE row.cooldown_until]

\* STEP 5, wrong password: the row after the increment and the lockout test
FailedPassword(row, t) ==
    LET n == row.login_attempts + 1
    IN  [row EXCEPT !.login_attempts = n,
                    !.cooldown_until =
                        IF n >= MAX_LOGIN_ATTEMPTS
                        THEN t + COOLDOWN_MINUTES
                        ELSE row.cooldown_until]

\* variant of Outcome: a call that wrote SUSPICIOUS_ACTIVITY returns no user
Outcome_SuspicionRefuses(rows, ledger, events, user_logs, ret, user, remaining, steps) ==
    LET flagged == events # <<>> /\ events[1] = "SUSPICIOUS_ACTIVITY"
    IN  [users |-> rows, attempts |-> ledger, events |-> events,
         user_logs |-> user_logs,
         ret |-> IF flagged /\ ret = "user" THEN "none" ELSE ret,
         user |-> IF flagged THEN "none" ELSE user,
         remaining |-> remaining, steps |-> steps]

\* what authenticate_user leaves behind and returns:
\*   ret = "blocked" (HTTPException 429), "none" (None) or "user"
\*   remaining = the seconds of the 429, steps = the steps entered
Outcome(rows, ledger, events, user_logs, ret, user, remaining, steps) ==
    [users |-> rows, attempts |-> ledger, events |-> events,
     user_logs |-> user_logs, ret |-> ret, user |-> user,
     remaining |-> remaining, steps |-> steps]

authenticate_user(rows, ledger, t, username, password, client_ip, user_agent) ==
    LET ip_status == check_ip_cooldown(ledger, t, client_ip)
    IN
    IF ip_status.is_blocked
    THEN \* STEP 1
         Outcome(rows,
                 log_failed_attempt(ledger, t, username, client_ip,
                                    "IP_COOLDOWN_BLOCKED"),
                 <<>>, <<>>, "blocked", "none",
                 ip_status.remaining_time, <<"ip">>)
    ELSE
    LET ev2 == IF _is_suspicious_activity(ledger, t, client_ip, user_agent)
               THEN <<"SUSPICIOUS_ACTIVITY">> ELSE <<>>
        user == get_user_by_username(rows, username)
    IN
    IF user = "none"
    THEN \* STEP 3
         LET r == increment_ip_failed_attempts(ledger, ev2, t, client_ip,
                                               username, "INVALID_USERNAME")
         IN  Outcome(rows, r.attempts, r.events, <<>>, "none", "none", 0,
                     <<"ip", "lookup">>)
    ELSE
    IF UserLocked(rows[user], t)
    THEN \* STEP 4
         LET r == increment_ip_failed_attempts(ledger, ev2, t, client_ip,
                                               username, "ACCOUNT_LOCKED")
         IN  Outcome(rows, r.attempts, r.events, <<>>, "none", "none", 0,
                     <<"ip", "lookup", "lock">>)
    ELSE
    IF ~verify_password(password, rows[user].password_hash)
    THEN \* STEP 5
         LET r == increment_ip_failed_attempts(ledger, ev2, t, client_ip,
                                               username, "INVALID_PASSWORD")
             row == FailedPassword(rows[user], t)
             locks == row.login_attempts >= MAX_LOGIN_ATTEMPTS
         IN  Outcome([rows EXCEPT ![user] = row], r.attempts,
                     IF locks THEN Append(r.events, "BRUTE_FORCE_ATTEMPT")
                     ELSE r.events,
                     IF locks THEN <<"ACCOUNT_LOCKED">> ELSE <<>>,
                     "none", "none", 0,
                     <<"ip", "lookup", "lock", "verify">>)
    ELSE \* STEP 6
         Outcome([rows EXCEPT ![user] = reset_login_attempts(rows[user])],
                 ledger, ev2, <<"LOGIN_SUCCESS">>, "user", user, 0,
                 <<"ip", "lookup", "lock", "verify">>)

(* ------------------------ login endpoint (main.py) -------------------- *)

Response(status, detail, n, retry_after, www_authenticate, sub, exp) ==
    [status |-> status, detail |-> detail, n |-> n,
     retry_after |-> retry_after, www_authenticate |-> www_authenticate,
     token_sub |-> sub, token_exp |-> exp]

\* jwt.encode of {"sub": .., "exp": now + expires_delta}
create_access_token(sub, t, expires_delta) ==
    [sub |-> sub, exp |-> t + expires_delta]

\* the response of login() to what authenticate_user returned
login(auth, t, client_ip) ==
    IF auth.ret = "blocked"
    THEN Response(429, "IP address dalam cooldown. Tunggu {n} detik.",
                  auth.remaining, auth.remaining, FALSE, "", None)
    ELSE
    IF auth.ret = "none"
    THEN LET ip_status == check_ip_cooldown(auth.attempts, t, client_ip)
             attempts_left == 3 - ip_status.failed_attempts
         IN  IF ip_status.is_blocked
             THEN Response(429,
                           "IP address dalam cooldown. Tunggu {n} detik.",
                           ip_status.remaining_time,
                           ip_status.remaining_time, FALSE, "", None)
             ELSE IF attempts_left <= 0
             THEN Response(401, "Terlalu banyak percobaan login gagal",
                           None, None, TRUE, "", None)
             ELSE Response(401,
                           "Username atau password salah. {n} percobaan tersisa.",
                           attempts_left, None, TRUE, "", None)
    ELSE
    LET row == auth.users[auth.user]
    IN  IF UserLocked(row, t)
        THEN Response(429, "Akun terkunci. Tunggu {n} detik.",
                      (row.cooldown_until - t) * 60,
                      (row.cooldown_until - t) * 60, FALSE, "", None)
        ELSE LET token == create_access_token(auth.user, t, TOKEN_MINUTES)
             IN  Response(200, "", None, None, FALSE, token.sub, token.exp)

(* ------------------------------ actions ------------------------------- *)

NoRow == [password_hash |-> <<>>, login_attempts |-> 0,
          cooldown_until |-> None]

\* a worker without request: no row loaded, nothing pending
NoSession ==
    [req |-> [username |-> "", password |-> "", ip |-> "", agent |-> ""],
     user |-> "none", loaded |-> NoRow, row |-> NoRow, dirty |-> FALSE,
     events |-> <<>>]

\* Redis without keys
NoKeys == <<>>

\* a worker without SessionManager or middleware call
NoJob == [op |-> "", at |-> "idle", key |-> <<>>, seen |-> <<>>]

\* a JWT that was never issued: no Authorization header
NoToken == [sub |-> "", exp |-> None, sig |-> ""]

\* no call outside /auth/login has returned yet
NoOut ==
    [op |-> "", arg |-> <<>>, ret |-> <<>>, created |-> <<>>,
     deleted |-> {}, admitted |-> <<>>]

Init ==
    /\ now = 0
    /\ users = [u \in {"alice"} |->
                   [password_hash |-> get_password_hash("secret"),
                    login_attempts |-> 0, cooldown_until |-> None]]
    /\ attempts = EmptyBag
    /\ call = [ret |-> "", events |-> <<>>, user_logs |-> <<>>,
               steps |-> <<>>, loaded |-> <<>>]
    /\ resp = Response(0, "", None, None, FALSE, "", None)
    /\ pc = [w \in Workers |-> "idle"]
    /\ sess = [w \in Workers |-> NoSession]
    /\ redis = NoKeys
    /\ job = [w \in Workers |-> NoJob]
    /\ out = NoOut

\* one POST /auth/login, handled from start to end
Login(username, password, client_ip, user_agent) ==
    /\ LET auth == authenticate_user(users, attempts, now, username,
                                     password, client_ip, user_agent)
           user == get_user_by_username(users, username)
       IN  /\ users' = auth.users
           /\ attempts' = auth.attempts
           /\ call' = [ret |-> auth.ret, events |-> auth.events,
                       user_logs |-> auth.user_logs, steps |-> auth.steps,
                       loaded |-> IF Len(auth.steps) >= 2 /\ user # "none"
                                  THEN <<users[user]>> ELSE <<>>]
           /\ resp' = login(auth, now, client_ip)
    /\ UNCHANGED <<now, pc, sess>>
    /\ UNCHANGED redis_vars

\* the clock advances between two requests
Tick(d) ==
    /\ now' = now + d
    /\ UNCHANGED <<users, attempts, call, resp, pc, sess>>
    /\ UNCHANGED redis_vars

\* a request out of reqs arrives while the ledger holds fewer than rows rows
Request(reqs, rows) ==
    \E r \in reqs :
        /\ BagCardinality(attempts) < rows
        /\ Login(r.username, r.password, r.ip, r.agent)

\* the clock advances by one of steps, up to horizon
Clock(steps, horizon) ==
    \E d \in steps : now + d <= horizon /\ Tick(d)

Next == Request(Requests, MaxLedger) \/ Clock(TickSteps, MaxTime)

Spec == Init /\ [][Next]_vars

NextSrc == Request(SrcRequests, MaxLedger) \/ Clock(TickSteps, MaxTimeSrc)

SpecSrc == Init /\ [][NextSrc]_vars

(* ------------------ concurrent requests (SpecConc) -------------------- *)
(* Each request runs authenticate_user on its own worker with its own      *)
(* SQLAlchemy session.  A session keeps the row it selected; an assignment *)
(* to a loaded attribute stays in the session until the next db.commit(),  *)
(* which writes the changed columns with the values the session holds and  *)
(* expires the loaded row, so that the next attribute access selects the    *)
(* row again.  Every statement and every commit is one step of the store.  *)

\* log_failed_attempt is reached: increment_ip_failed_attempts does not return early
KnownIp(client_ip) == client_ip # "" /\ client_ip # "unknown"

\* STEPS 1 to 5 up to the assignment user.login_attempts += 1, or up to the
\* assignments of reset_login_attempts; a call that ends in STEP 1, 3 or 4
\* touches no account row and is taken whole
Begin(w, r) ==
    /\ pc[w] = "idle"
    /\ UNCHANGED redis_vars
    /\ BagCardinality(attempts) < MaxLedger
    /\ LET ip_status == check_ip_cooldown(attempts, now, r.ip)
           user == get_user_by_username(users, r.username)
           ev2 == IF _is_suspicious_activity(attempts, now, r.ip, r.agent)
                  THEN <<"SUSPICIOUS_ACTIVITY">> ELSE <<>>
           auth == authenticate_user(users, attempts, now, r.username,
                                     r.password, r.ip, r.agent)
       IN  IF \/ ip_status.is_blocked
              \/ user = "none"
              \/ UserLocked(users[user], now)
           THEN /\ attempts' = auth.attempts
                /\ call' = [ret |-> auth.ret, events |-> auth.events,
                            user_logs |-> auth.user_logs,
                            steps |-> auth.steps,
                            loaded |-> IF user # "none" /\ ~ip_status.is_blocked
                                       THEN <<users[user]>> ELSE <<>>]
                /\ resp' = login(auth, now, r.ip)
                /\ pc' = [pc EXCEPT ![w] = "done"]
                /\ sess' = [sess EXCEPT ![w].req = r]
                /\ UNCHANGED <<now, users>>
           ELSE /\ sess' = [sess EXCEPT ![w] =
                      [req |-> r, user |-> user, loaded |-> users[user],
                       row |-> IF verify_password(r.password,
                                                  users[user].password_hash)
                               THEN reset_login_attempts(users[user])
                               ELSE [users[user] EXCEPT
                                        !.login_attempts = @ + 1],
                       dirty |-> TRUE, events |-> ev2]]
                /\ pc' = [pc EXCEPT ![w] =
                             IF verify_password(r.password,
                                                users[user].password_hash)
                             THEN "reset" ELSE "record"]
                /\ UNCHANGED <<now, users, attempts, call, resp>>

\* the columns a commit of the session writes: those whose value in the
\* session differs from the value it loaded
Flush(stored, s) ==
    [stored EXCEPT
        !.login_attempts = IF s.row.login_attempts # s.loaded.login_attempts
                           THEN s.row.login_attempts ELSE @,
        !.cooldown_until = IF s.row.cooldown_until # s.loaded.cooldown_until
                           THEN s.row.cooldown_until ELSE @]

\* STEP 5: increment_ip_failed_attempts; the commit of log_failed_attempt
\* also writes the pending login_attempts
Record(w) ==
    /\ pc[w] = "record"
    /\ LET s == sess[w]
           r == increment_ip_failed_attempts(attempts, s.events, now,
                                             s.req.ip, s.req.username,
                                             "INVALID_PASSWORD")
       IN  /\ attempts' = r.attempts
           /\ users' = IF KnownIp(s.req.ip)
                       THEN [users EXCEPT ![s.user] = Flush(@, s)]
                       ELSE users
           /\ sess' = [sess EXCEPT ![w].dirty = ~KnownIp(s.req.ip),
                                   ![w].events = r.events]
    /\ pc' = [pc EXCEPT ![w] = "lockout"]
    /\ UNCHANGED <<now, call, resp>>
    /\ UNCHANGED redis_vars

\* STEP 5: the lockout test, the commits that follow it, and the response
Lockout(w) ==
    /\ pc[w] = "lockout"
    /\ LET s == sess[w]
           \* the session's row: as assigned, or selected again after a commit
           seen == IF s.dirty THEN s.row ELSE users[s.user]
           held == IF s.dirty THEN s ELSE [s EXCEPT !.row = seen,
                                                    !.loaded = seen]
           locks == seen.login_attempts >= MAX_LOGIN_ATTEMPTS
           after == IF locks
                    THEN [held EXCEPT !.row.cooldown_until =
                                          now + COOLDOWN_MINUTES]
                    ELSE held
           rows == [users EXCEPT ![s.user] = Flush(@, after)]
           auth == Outcome(rows, attempts,
                           IF locks
                           THEN Append(s.events, "BRUTE_FORCE_ATTEMPT")
                           ELSE s.events,
                           IF locks THEN <<"ACCOUNT_LOCKED">> ELSE <<>>,
                           "none", "none", 0,
                           <<"ip", "lookup", "lock", "verify">>)
       IN  /\ users' = rows
           /\ call' = [ret |-> auth.ret, events |-> auth.events,
                       user_logs |-> auth.user_logs, steps |-> auth.steps,
                       loaded |-> <<s.loaded>>]
           /\ resp' = login(auth, now, s.req.ip)
    /\ pc' = [pc EXCEPT ![w] = "done"]
    /\ UNCHANGED <<now, attempts, sess>>
    /\ UNCHANGED redis_vars

\* STEP 6: the commit of reset_login_attempts, and the response
Reset(w) ==
    /\ pc[w] = "reset"
    /\ LET s == sess[w]
           rows == [users EXCEPT ![s.user] = Flush(@, s)]
           auth == Outcome(rows, attempts, s.events, <<"LOGIN_SUCCESS">>,
                           "user", s.user, 0,
                           <<"ip", "lookup", "lock", "verify">>)
       IN  /\ users' = rows
           /\ call' = [ret |-> auth.ret, events |-> auth.events,
                       user_logs |-> auth.user_logs, steps |-> auth.steps,
                       loaded |-> <<s.loaded>>]
           /\ resp' = login(auth, now, s.req.ip)
    /\ pc' = [pc EXCEPT ![w] = "done"]
    /\ UNCHANGED <<now, attempts, sess>>
    /\ UNCHANGED redis_vars

\* the requests of SpecConc: alice with either password, from a known
\* address and without client address
ConcRequests ==
    {r \in AllRequests :
        r.username = "alice" /\ r.agent = "Mozilla/5.0 (X11)"}

NextConc ==
    \/ \E w \in Workers, r \in ConcRequests : Begin(w, r)
    \/ \E w \in Workers : Record(w)
    \/ \E w \in Workers : Lockout(w)
    \/ \E w \in Workers : Reset(w)

SpecConc == Init /\ [][NextConc]_vars

(* ---------------------- what the claims speak of --------------------- *)
(* Stated from the columns of the tables, not through the operators of     *)
(* AuthManager, so that each formula below compares the code's result      *)
(* with an independent reading of the state.                               *)

IsLogin(r) == Login(r.username, r.password, r.ip, r.agent)

\* the failed attempts of an address in the trailing window, both ends in
SrcCount(ip) ==
    BagCardinality([e \in {x \in DOMAIN attempts :
                              x.ip = ip /\ x.t >= now - IP_COOLDOWN_MINUTES}
                    |-> attempts[e]])

\* the most recent attempt of the address is less than the window old
SrcRecent(ip) ==
    \E e \in DOMAIN attempts : e.ip = ip /\ e.t > now - IP_COOLDOWN_MINUTES

SrcBlocked(ip) == SrcCount(ip) >= MAX_IP_ATTEMPTS /\ SrcRecent(ip)

AcctExists(r) == lower(r.username) \in DOMAIN users

AcctLocked(r) ==
    /\ users[lower(r.username)].cooldown_until # None
    /\ users[lower(r.username)].cooldown_until > now

PwMatches(r) ==
    users[lower(r.username)].password_hash = <<"bcrypt", r.password>>

\* the request reaches STEP 5 and fails there
WrongPasswordCall(r) ==
    /\ ~SrcBlocked(r.ip)
    /\ AcctExists(r)
    /\ ~AcctLocked(r)
    /\ ~PwMatches(r)

(* ------------------------------- claims ------------------------------- *)

\* C1: a login returns a user and a token only if, in that call, the source
\* address was not blocked, the account exists, it was not locked and the
\* password matched the stored hash; the token then names that account.
C1_TokenOnlyAfterAllChecks ==
    [][\A r \in AllRequests :
          IsLogin(r) /\ (call'.ret = "user" \/ resp'.status = 200
                          \/ resp'.token_sub # "")
          => /\ ~SrcBlocked(r.ip)
             /\ AcctExists(r)
             /\ ~AcctLocked(r)
             /\ PwMatches(r)
             /\ resp'.status = 200
             /\ resp'.token_sub = lower(r.username)]_vars

C1_Witness ==
    /\ resp.status = 200
    /\ resp.token_sub = "alice"
    /\ call.ret = "user"
    /\ call.steps = <<"ip", "lookup", "lock", "verify">>

\* C2: a wrong-password call on an account that was never locked since its
\* counter was 0 makes failed_count = k; for k < 5 the account stays
\* unlocked, and the call that makes k = 5 sets locked_until = now + 15 min.
\* Such an account always has failed_count < 5.
C2_MonotonicLockout ==
    /\ [](\A u \in DOMAIN users :
             users[u].cooldown_until = None
             => users[u].login_attempts < MAX_LOGIN_ATTEMPTS)
    /\ [][\A r \in AllRequests :
             IsLogin(r) /\ WrongPasswordCall(r)
             /\ users[lower(r.username)].cooldown_until = None
             => LET u == lower(r.username)
                    k == users[u].login_attempts + 1
                IN  /\ users'[u].login_attempts = k
                    /\ k < MAX_LOGIN_ATTEMPTS
                       => users'[u].cooldown_until = None
                    /\ k = MAX_LOGIN_ATTEMPTS
                       => users'[u].cooldown_until = now + COOLDOWN_MINUTES]_vars

C2_Witness ==
    /\ call.steps = <<"ip", "lookup", "lock", "verify">>
    /\ call.ret = "none"
    /\ call.loaded = <<[password_hash |-> <<"bcrypt", "secret">>,
                        login_attempts |-> 4, cooldown_until |-> None]>>
    /\ users["alice"].login_attempts = 5
    /\ users["alice"].cooldown_until = now + 15

\* C3: while locked_until is in the future every login for the account is
\* refused, whatever the password, and the account row is left unchanged.
C3_LockedIsRefused ==
    [][\A r \in AllRequests :
          IsLogin(r) /\ AcctExists(r) /\ AcctLocked(r)
          => /\ call'.ret # "user"
             /\ resp'.status # 200
             /\ resp'.token_sub = ""
             /\ users' = users]_vars

C3_Witness ==
    /\ call.steps = <<"ip", "lookup", "lock">>
    /\ call.ret = "none"
    /\ resp.status = 401
    /\ users["alice"].cooldown_until = now + 1
    /\ users["alice"].login_attempts = 5

\* C4 as claimed: an address with at least 10 failed attempts in the
\* trailing window is rejected with 429 before the account lookup.
C4_Original ==
    [][\A r \in AllRequests :
          IsLogin(r) /\ SrcCount(r.ip) >= MAX_IP_ATTEMPTS
          => /\ resp'.status = 429
             /\ call'.steps = <<"ip">>
             /\ users' = users]_vars

\* C4 as amended: an address with at least 10 failed attempts in the
\* trailing window, the most recent of them less than the window old, is
\* rejected with 429 and Retry-After at STEP 1, before the account lookup and
\* the password comparison, whatever its credentials; no account row changes.
C4_BlockedBeforeAccount ==
    [][\A r \in AllRequests :
          IsLogin(r) /\ SrcCount(r.ip) >= MAX_IP_ATTEMPTS /\ SrcRecent(r.ip)
          => /\ resp'.status = 429
             /\ resp'.retry_after > 0
             /\ resp'.token_sub = ""
             /\ call'.ret = "blocked"
             /\ call'.steps = <<"ip">>
             /\ call'.loaded = <<>>
             /\ users' = users]_vars

C4_Witness ==
    /\ resp.status = 429
    /\ call.ret = "blocked"
    /\ call.steps = <<"ip">>
    /\ \E e \in DOMAIN attempts :
           e.reason = "IP_COOLDOWN_BLOCKED" /\ e.username = "alice"

\* the time of the most recent attempt of an address that has one
SrcLatest(ip) ==
    CHOOSE t \in {e.t : e \in {x \in DOMAIN attempts : x.ip = ip}} :
        \A e \in DOMAIN attempts : e.ip = ip => e.t <= t

\* when its most recent attempt was made, the address had at least 10
\* attempts in the window that ended then
SrcReachedThreshold(ip) ==
    /\ \E e \in DOMAIN attempts : e.ip = ip
    /\ BagCardinality([e \in {x \in DOMAIN attempts :
                                 /\ x.ip = ip
                                 /\ x.t >= SrcLatest(ip) - IP_COOLDOWN_MINUTES}
                       |-> attempts[e]]) >= MAX_IP_ATTEMPTS

\* C5: once the window tally of an address has reached 10, the address is
\* reported blocked at every check made before its most recent attempt + 30
\* min, also after its older attempts have aged out of the window.
C5_BlockedUntilLatestPlusWindow ==
    \A ip \in IPs :
        SrcReachedThreshold(ip)
        /\ now < SrcLatest(ip) + IP_COOLDOWN_MINUTES
        => check_ip_cooldown(attempts, now, ip).is_blocked

\* C6: an address reported blocked has at least 10 failed attempts inside
\* the trailing window; one with none, or with fewer, is never reported
\* blocked, however many older rows the table still holds.
C6_NoFalsePositive ==
    \A ip \in IPs \cup {"10.0.0.2"} :
        /\ check_ip_cooldown(attempts, now, ip).is_blocked
           => SrcCount(ip) >= MAX_IP_ATTEMPTS
        /\ check_ip_cooldown(attempts, now, ip).failed_attempts = SrcCount(ip)

C6_Witness ==
    /\ BagCardinality(attempts) >= MAX_IP_ATTEMPTS
    /\ SrcCount("10.0.0.1") > 0
    /\ SrcCount("10.0.0.1") < MAX_IP_ATTEMPTS
    /\ ~check_ip_cooldown(attempts, now, "10.0.0.1").is_blocked
    /\ resp.status = 401

\* C7: every successful authentication leaves the account with
\* failed_count = 0 and locked_until unset, whatever they were before.
C7_ResetOnSuccess ==
    [][\A r \in AllRequests :
          IsLogin(r) /\ (call'.ret = "user" \/ resp'.status = 200)
          => /\ users'[lower(r.username)].login_attempts = 0
             /\ users'[lower(r.username)].cooldown_until = None]_vars

C7_Witness ==
    /\ resp.status = 200
    /\ call.ret = "user"
    /\ call.loaded # <<>>
    /\ call.loaded[1].login_attempts >= MAX_LOGIN_ATTEMPTS
    /\ call.loaded[1].cooldown_until = now
    /\ users["alice"].login_attempts = 0
    /\ users["alice"].cooldown_until = None

\* C8: when N < 5 wrong-password calls run concurrently against the same
\* fresh account, each on its own session, failed_count = N once all of
\* them have finished.
C8_NoLostUpdate ==
    (\A w \in Workers :
        /\ pc[w] = "done"
        /\ sess[w].req.username = "alice"
        /\ sess[w].req.password = "wrong")
    => users["alice"].login_attempts = NumWorkers

\* C9: from one state, address and request shape, a login with an unknown
\* username and a login with a wrong password for an existing unlocked
\* account get the same status, body and headers.
C9_IndistinguishableRejection ==
    [][\A r \in AllRequests :
          IsLogin(r) /\ AcctExists(r) /\ ~AcctLocked(r) /\ ~PwMatches(r)
          => resp' = login(authenticate_user(users, attempts, now, "mallory",
                                             r.password, r.ip, r.agent),
                           now, r.ip)]_vars

C9_Witness ==
    /\ call.steps = <<"ip", "lookup", "lock", "verify">>
    /\ call.ret = "none"
    /\ resp.status = 401
    /\ resp.detail = "Terlalu banyak percobaan login gagal"

\* C10: a login for an account whose locked_until is in the future, from an
\* address that is not blocked, is answered 429 with Retry-After equal to
\* the remaining lockout seconds.
C10_LockedAnswered429 ==
    [][\A r \in AllRequests :
          IsLogin(r) /\ AcctExists(r) /\ AcctLocked(r) /\ ~SrcBlocked(r.ip)
          => /\ resp'.status = 429
             /\ resp'.retry_after =
                    (users[lower(r.username)].cooldown_until - now) * 60]_vars

\* C11: every login that does not succeed adds exactly one row to
\* failed_login_attempts, whatever the source address, also a missing or
\* "unknown" one; a successful login adds none.
C11_OneAttemptPerFailure ==
    [][\A r \in AllRequests :
          IsLogin(r)
          => IF call'.ret = "user"
             THEN attempts' = attempts
             ELSE BagCardinality(attempts') = BagCardinality(attempts) + 1]_vars

\* C12: one authenticate_user call writes at most one security event.
C12_AtMostOneEvent ==
    Len(call.events) <= 1

\* C13: a wrong password for an account whose lockout has expired is handled
\* as if failed_count were 0: it leaves failed_count = 1 and the account
\* unlocked.
C13_ExpiryRestartsCount ==
    [][\A r \in AllRequests :
          /\ IsLogin(r)
          /\ WrongPasswordCall(r)
          /\ users[lower(r.username)].cooldown_until # None
          => /\ users'[lower(r.username)].login_attempts = 1
             /\ ~(users'[lower(r.username)].cooldown_until > now)]_vars

\* C14: a locked account has failed_count = 0 and an unlocked one has
\* 0 <= failed_count < 5; failed_count returns to 0 only in a call that
\* succeeds or sets locked_until, and every call that sets locked_until
\* leaves it 0.
C14_CounterInvariant ==
    /\ [](\A u \in DOMAIN users :
             IF users[u].cooldown_until # None /\ users[u].cooldown_until > now
             THEN users[u].login_attempts = 0
             ELSE /\ users[u].login_attempts >= 0
                  /\ users[u].login_attempts < MAX_LOGIN_ATTEMPTS)
    /\ [][\A u \in DOMAIN users :
             /\ users[u].login_attempts # 0 /\ users'[u].login_attempts = 0
                => \/ call'.ret = "user"
                   \/ users'[u].cooldown_until # users[u].cooldown_until
             /\ users'[u].cooldown_until # users[u].cooldown_until
                /\ users'[u].cooldown_until # None
                => users'[u].login_attempts = 0]_vars

(* --------------- aborted requests, loaded store (SpecAbort) ----------- *)
(* The workers of SpecConc start from a store that earlier requests have   *)
(* left behind, and a request can end between two of its commits: the      *)
(* worker dies or a later statement raises, and the session is closed      *)
(* without another commit.                                                 *)

\* the rows left by k unknown-username failures of one address at minute 0
EarlierFailures(k) ==
    IF k = 0 THEN EmptyBag
    ELSE [e \in {[username |-> "mallory", ip |-> "10.0.0.1",
                  reason |-> "INVALID_USERNAME", t |-> 0]} |-> k]

\* alice has failed n < 5 times from requests without client address, and
\* 10.0.0.1 has no failure yet or is one failure short of its threshold
InitLoaded ==
    /\ now = 0
    /\ \E n \in 0..(MAX_LOGIN_ATTEMPTS - 1) :
          users = [u \in {"alice"} |->
                      [password_hash |-> get_password_hash("secret"),
                       login_attempts |-> n, cooldown_until |-> None]]
    /\ \E k \in {0, MAX_IP_ATTEMPTS - 1} : attempts = EarlierFailures(k)
    /\ call = [ret |-> "", events |-> <<>>, user_logs |-> <<>>,
               steps |-> <<>>, loaded |-> <<>>]
    /\ resp = Response(0, "", None, None, FALSE, "", None)
    /\ pc = [w \in Workers |-> "idle"]
    /\ sess = [w \in Workers |-> NoSession]
    /\ redis = NoKeys
    /\ job = [w \in Workers |-> NoJob]
    /\ out = NoOut

\* the request ends where it is; what its session has not committed is lost
Abort(w) ==
    /\ pc[w] \in {"record", "lockout", "reset"}
    /\ pc' = [pc EXCEPT ![w] = "aborted"]
    /\ UNCHANGED <<now, users, attempts, call, resp, sess>>
    /\ UNCHANGED redis_vars

NextAbort == NextConc \/ \E w \in Workers : Abort(w)

SpecAbort == InitLoaded /\ [][NextAbort]_vars

\* a security event of this type is among those a call has written
Emitted(events, event_type) ==
    \E i \in 1..Len(events) : events[i] = event_type

\* C15: after a call was aborted, no other call having run, the stored
\* account row and the ledger are those before the call or those after the
\* complete call; failed_count = 5 is never stored with locked_until unset.
C15_AtomicOnAbort ==
    \A w \in Workers :
        pc[w] = "aborted" /\ (\A v \in Workers \ {w} : pc[v] = "idle")
        => LET r == sess[w].req
               pre == sess[w].loaded
               wrong == ~verify_password(r.password, pre.password_hash)
               post == IF wrong THEN FailedPassword(pre, now)
                       ELSE reset_login_attempts(pre)
               logged == BagCardinality(Filter(attempts,
                             {e \in DOMAIN attempts : e.username = "alice"}))
           IN  \/ users["alice"] = pre /\ logged = 0
               \/ /\ users["alice"] = post
                  /\ logged = IF wrong /\ KnownIp(r.ip) THEN 1 ELSE 0

\* C17: a failed attempt writes IP_COOLDOWN_TRIGGERED exactly when it takes
\* the in-window tally of its address from below 10 to 10, also when
\* several failing requests of the address are handled at the same time.
C17_EventOncePerCrossing ==
    [][\A w \in Workers :
          /\ Record(w)
             => (Emitted(sess'[w].events, "IP_COOLDOWN_TRIGGERED")
                 <=> /\ SrcCount(sess[w].req.ip) < MAX_IP_ATTEMPTS
                     /\ SrcCount(sess[w].req.ip)' >= MAX_IP_ATTEMPTS)
          /\ \A r \in ConcRequests :
                Begin(w, r) /\ pc'[w] = "done"
                => (Emitted(call'.events, "IP_COOLDOWN_TRIGGERED")
                    <=> /\ SrcCount(r.ip) < MAX_IP_ATTEMPTS
                        /\ SrcCount(r.ip)' >= MAX_IP_ATTEMPTS)]_vars

(* ------------- a failing ledger write (SpecFail) ---------------------- *)
(* The INSERT or the commit of log_failed_attempt raises; its except       *)
(* branch prints the error and rolls the session back, which also drops    *)
(* what the session had pending, and the caller goes on.  The statements   *)
(* after the rollback succeed.                                             *)

\* authenticate_user when the write of log_failed_attempt raises
authenticate_user_rollback(rows, ledger, t, username, password, client_ip, user_agent) ==
    LET ip_status == check_ip_cooldown(ledger, t, client_ip)
        ev2 == IF _is_suspicious_activity(ledger, t, client_ip, user_agent)
               THEN <<"SUSPICIOUS_ACTIVITY">> ELSE <<>>
        \* increment_ip_failed_attempts: nothing logged, then the threshold test
        ev3 == IF check_ip_cooldown(ledger, t, client_ip).failed_attempts
                      >= MAX_IP_ATTEMPTS
               THEN Append(ev2, "IP_COOLDOWN_TRIGGERED") ELSE ev2
        user == get_user_by_username(rows, username)
    IN
    IF ip_status.is_blocked
    THEN Outcome(rows, ledger, <<>>, <<>>, "blocked", "none",
                 ip_status.remaining_time, <<"ip", "rollback">>)
    ELSE
    IF user = "none"
    THEN Outcome(rows, ledger, ev3, <<>>, "none", "none", 0,
                 <<"ip", "lookup", "rollback">>)
    ELSE
    IF UserLocked(rows[user], t)
    THEN Outcome(rows, ledger, ev3, <<>>, "none", "none", 0,
                 <<"ip", "lookup", "lock", "rollback">>)
    ELSE \* STEP 5: the rollback has dropped user.login_attempts += 1
         LET locks == rows[user].login_attempts >= MAX_LOGIN_ATTEMPTS
             row == IF locks
                    THEN [rows[user] EXCEPT
                             !.cooldown_until = t + COOLDOWN_MINUTES]
                    ELSE rows[user]
         IN  Outcome([rows EXCEPT ![user] = row], ledger,
                     IF locks THEN Append(ev3, "BRUTE_FORCE_ATTEMPT")
                     ELSE ev3,
                     IF locks THEN <<"ACCOUNT_LOCKED">> ELSE <<>>,
                     "none", "none", 0,
                     <<"ip", "lookup", "lock", "verify", "rollback">>)

\* one POST /auth/login whose call reaches log_failed_attempt, the write failing
LoginWriteFails(username, password, client_ip, user_agent) ==
    /\ KnownIp(client_ip)
    /\ authenticate_user(users, attempts, now, username, password,
                         client_ip, user_agent).ret # "user"
    /\ LET auth == authenticate_user_rollback(users, attempts, now, username,
                                              password, client_ip, user_agent)
           user == get_user_by_username(users, username)
       IN  /\ users' = auth.users
           /\ attempts' = auth.attempts
           /\ call' = [ret |-> auth.ret, events |-> auth.events,
                       user_logs |-> auth.user_logs, steps |-> auth.steps,
                       loaded |-> IF Len(auth.steps) >= 3 /\ user # "none"
                                  THEN <<users[user]>> ELSE <<>>]
           /\ resp' = login(auth, now, client_ip)
    /\ UNCHANGED <<now, pc, sess>>
    /\ UNCHANGED redis_vars

\* a request out of reqs arrives and its ledger write fails
FailedWrite(reqs) ==
    \E r \in reqs : LoginWriteFails(r.username, r.password, r.ip, r.agent)

NextFail ==
    \/ Request(Requests, MaxLedger)
    \/ Clock(TickSteps, MaxTime)
    \/ FailedWrite(Requests)

SpecFail == Init /\ [][NextFail]_vars

IsLoginWriteFails(r) ==
    LoginWriteFails(r.username, r.password, r.ip, r.agent)

\* C16: a login whose FailedAttempt write fails ends with a store error
\* (500), not with an ordinary rejection, and a wrong password still raises
\* the account's failed_count by one.
C16_FailClosed ==
    [][\A r \in AllRequests :
          IsLoginWriteFails(r)
          => /\ resp'.status = 500
             /\ WrongPasswordCall(r)
                => users'[lower(r.username)].login_attempts
                       = users[lower(r.username)].login_attempts + 1]_vars

(* ------------------------- security events --------------------------- *)

\* the INVALID_USERNAME rows of a username in the last hour
UnknownNameCount(username) ==
    BagCardinality(Filter(attempts,
        {e \in DOMAIN attempts : /\ e.username = lower(username)
                                 /\ e.reason = "INVALID_USERNAME"
                                 /\ e.t >= now - 60}))

\* C18: the call that records the third, or a later, unknown-username attempt
\* of one username within an hour writes a USERNAME_ENUMERATION event.
C18_EnumerationReported ==
    [][\A r \in AllRequests :
          /\ IsLogin(r)
          /\ UnknownNameCount(r.username)' > UnknownNameCount(r.username)
          /\ UnknownNameCount(r.username)' >= 3
          => Emitted(call'.events, "USERNAME_ENUMERATION")]_vars

\* the account passes from unlocked to locked in this step
BecomesLocked(u) ==
    /\ ~(users[u].cooldown_until # None /\ users[u].cooldown_until > now)
    /\ users'[u].cooldown_until # None /\ users'[u].cooldown_until > now

\* the number of BRUTE_FORCE_ATTEMPT events among those of a call
BruteForceEvents(events) ==
    Cardinality({i \in 1..Len(events) : events[i] = "BRUTE_FORCE_ATTEMPT"})

OtherEvents(events) ==
    LET NotSuspicion(e) == e # "SUSPICIOUS_ACTIVITY"
    IN  SelectSeq(events, NotSuspicion)

SignedToken(sub, exp) == [sub |-> sub, exp |-> exp, sig |-> "HS256"]

\* what a client can put behind "Bearer ": the token of the login just
\* answered, a token signed with another key, or a string that is no JWT
PresentedTokens ==
    (IF resp.status = 200
     THEN {SignedToken(resp.token_sub, resp.token_exp)} ELSE {})
    \cup {[sub |-> "alice", exp |-> MaxTimeSrc + TOKEN_MINUTES,
           sig |-> "forged"],
          [sub |-> "", exp |-> None, sig |-> "malformed"]}

\* auth_manager.verify_token(token): AuthManager defines no verify_token, the
\* attribute lookup raises AttributeError whatever the token
verify_token(token, t) ==
    [raised |-> "AttributeError", sub |-> ""]

\* GET /auth/me
get_current_user(rows, token, t) ==
    IF token = NoToken
    THEN [status |-> 401, detail |-> "Not authenticated", username |-> ""]
    ELSE LET payload == verify_token(token, t)
         IN  IF payload.raised # "" \/ payload.sub = ""
             THEN [status |-> 401,
                   detail |-> "Could not validate credentials",
                   username |-> ""]
             ELSE IF get_user_by_username(rows, payload.sub) = "none"
             THEN [status |-> 401,
                   detail |-> "Could not validate credentials",
                   username |-> ""]
             ELSE [status |-> 200, detail |-> "",
                   username |-> get_user_by_username(rows, payload.sub)]

\* one GET /auth/me with this token in the Authorization header
Me(token) ==
    /\ out' = [out EXCEPT !.op = "me", !.arg = <<token>>,
                          !.ret = <<get_current_user(users, token, now)>>]
    /\ UNCHANGED <<now, redis, job>>
    /\ UNCHANGED auth_vars

\* the logins of SpecToken: alice with her password from one address
TokenRequests ==
    {r \in AllRequests :
        /\ r.username = "alice"
        /\ r.password = "secret"
        /\ r.ip = "10.0.0.1"
        /\ r.agent = "Mozilla/5.0 (X11)"}

NextToken ==
    \/ Request(TokenRequests, MaxLedger)
    \/ Clock(TickSteps, MaxTimeSrc)
    \/ \E token \in PresentedTokens \cup {NoToken} : Me(token)

SpecToken == Init /\ [][NextToken]_vars

\* C21: /auth/me accepts the token a login issued, and answers with its
\* username, at every instant before the token's expiry; it rejects the
\* token after its expiry, and a forged or malformed token always.
C21_TokenRoundTrip ==
    [][\A token \in PresentedTokens :
          Me(token)
          => /\ token.sig = "HS256" /\ now < token.exp
                => /\ out'.ret[1].status = 200
                   /\ out'.ret[1].username = token.sub
             /\ token.sig = "HS256" /\ now > token.exp
                => out'.ret[1].status = 401
             /\ token.sig # "HS256" => out'.ret[1].status = 401]_vars

(* ------------------------ source cooldown times ----------------------- *)

Stalls == {0, 1}

\* check_ip_cooldown with its readings of the clock: t1 for the window
\* bound, t2 for the comparison, t3 for the remaining seconds
check_ip_cooldown_readings(ledger, t1, t2, t3, client_ip) ==
    IF client_ip = "" \/ client_ip = "unknown"
    THEN [is_blocked |-> FALSE, remaining_time |-> 0,
          failed_attempts |-> 0, cooldown_until |-> None]
    ELSE LET recent_failures == RecentFailures(ledger, t1, client_ip)
             n == BagCardinality(recent_failures)
             cooldown_until ==
                 IF n = 0 THEN None
                 ELSE LatestTime(recent_failures) + IP_COOLDOWN_MINUTES
         IN  IF n >= MAX_IP_ATTEMPTS /\ cooldown_until > t2
             THEN [is_blocked |-> TRUE,
                   remaining_time |-> (cooldown_until - t3) * 60,
                   failed_attempts |-> n,
                   cooldown_until |-> cooldown_until]
             ELSE [is_blocked |-> FALSE, remaining_time |-> 0,
                   failed_attempts |-> n, cooldown_until |-> None]

\* one get_ip_status call during which the clock advances by d2, then by d3
GetIpStatus(client_ip, d2, d3) ==
    /\ now + d2 + d3 <= MaxTimeSrc
    /\ now' = now + d2 + d3
    /\ out' = [out EXCEPT
                  !.op = "get_ip_status",
                  !.arg = <<client_ip>>,
                  !.ret = <<check_ip_cooldown_readings(attempts, now, now + d2,
                                                       now + d2 + d3,
                                                       client_ip)>>]
    /\ UNCHANGED <<redis, job>>
    /\ UNCHANGED auth_vars

\* the logins of SpecClock: failures of one address
ClockRequests ==
    {r \in AllRequests :
        /\ r.username = "mallory"
        /\ r.password = "wrong"
        /\ r.ip = "10.0.0.1"
        /\ r.agent = "Mozilla/5.0 (X11)"}

\* the failures all arrive in the first minute
NextClock ==
    \/ now = 0 /\ Request(ClockRequests, MAX_IP_ATTEMPTS)
    \/ Clock(TickSteps, MaxTimeSrc)
    \/ \E d2 \in Stalls, d3 \in Stalls : GetIpStatus("10.0.0.1", d2, d3)

SpecClock == Init /\ [][NextClock]_vars

\* C23: what one check of an address returns is what a single reading of
\* the clock, taken at some instant of the call, gives: the blocked decision
\* and the remaining seconds belong to the same instant.
C23_OneClockReading ==
    [][\A d2 \in Stalls, d3 \in Stalls :
          GetIpStatus("10.0.0.1", d2, d3)
          => \E t \in now..(now + d2 + d3) :
                 out'.ret[1] = check_ip_cooldown(attempts, t, "10.0.0.1")]_vars

\* C24: an address is reported not blocked at every check made 30 minutes
\* or more after its most recent recorded attempt, and no step removes a
\* row of the ledger; a login made while the address is blocked is recorded
\* with the current time and is then the most recent attempt of the address.
C24_LazyExpiry ==
    /\ [](\A ip \in IPs :
             (\E e \in DOMAIN attempts : e.ip = ip)
             /\ now >= SrcLatest(ip) + IP_COOLDOWN_MINUTES
             => ~check_ip_cooldown(attempts, now, ip).is_blocked)
    /\ [][\A e \in DOMAIN attempts :
             e \in DOMAIN attempts' /\ attempts'[e] >= attempts[e]]_vars
    /\ [][\A r \in AllRequests :
             IsLogin(r) /\ SrcBlocked(r.ip)
             => /\ attempts' =
                     attempts (+) SetToBag({[username |-> lower(r.username),
                                             ip |-> r.ip,
                                             reason |-> "IP_COOLDOWN_BLOCKED",
                                             t |-> now]})
                /\ SrcLatest(r.ip)' = now]_vars

\* an address that was refused at minute 14 is free again 30 minutes later,
\* its rows still in the ledger
C24_Witness ==
    /\ \E e \in DOMAIN attempts :
           /\ e.ip = "10.0.0.1"
           /\ e.reason = "IP_COOLDOWN_BLOCKED"
           /\ e.t = SrcLatest("10.0.0.1")
           /\ e.t > 0
    /\ BagCardinality(attempts) > MAX_IP_ATTEMPTS
    /\ now >= SrcLatest("10.0.0.1") + IP_COOLDOWN_MINUTES
    /\ ~check_ip_cooldown(attempts, now, "10.0.0.1").is_blocked

\* the calls that found the account unlocked, compared a wrong password and
\* have not yet committed their increment of login_attempts
ComparedNotCommitted(u) ==
    {w \in Workers : pc[w] = "record" /\ sess[w].user = u}

\* C25: since the last reset of an account's failed_count, the password
\* comparisons made while it was unlocked (those the stored count records
\* and those of the calls that have compared and not yet committed) are at
\* most 5, for every interleaving of the concurrent calls.
C25_BoundedGuessing ==
    \A u \in DOMAIN users :
        users[u].login_attempts + Cardinality(ComparedNotCommitted(u))
            <= MAX_LOGIN_ATTEMPTS

(* ------------------------- Redis (redis-py client) -------------------- *)
(* The store maps a key to its value and the minute it expires at (None:   *)
(* no expiry). A command sees the keys that have not expired.              *)

Live(store, t) ==
    Filter(store, {k \in DOMAIN store :
                      store[k].exp = None \/ store[k].exp > t})

\* SETEX key seconds value
setex(store, key, seconds, value, t) ==
    (key :> [val |-> value, exp |-> t + seconds \div 60]) @@ store

\* GET key: the value in a tuple, the empty tuple for nil
get(store, key) ==
    IF key \in DOMAIN store THEN <<store[key].val>> ELSE <<>>

\* DEL key
delete(store, key) == Filter(store, DOMAIN store \ {key})

\* SADD key member: a new set has no expiry, an old one keeps its own
sadd(store, key, member) ==
    IF key \in DOMAIN store
    THEN [store EXCEPT ![key].val = @ \cup {member}]
    ELSE (key :> [val |-> {member}, exp |-> None]) @@ store

\* SREM key member: a set that becomes empty is removed
srem(store, key, member) ==
    IF key \notin DOMAIN store THEN store
    ELSE IF store[key].val \ {member} = {} THEN delete(store, key)
    ELSE [store EXCEPT ![key].val = @ \ {member}]

\* SMEMBERS key
smembers(store, key) ==
    IF key \in DOMAIN store THEN store[key].val ELSE {}

\* EXPIRE key seconds
expire(store, key, seconds, t) ==
    IF key \in DOMAIN store
    THEN [store EXCEPT ![key].exp = t + seconds \div 60]
    ELSE store

\* INCR key: a missing key is created with value 1 and no expiry
incr(store, key) ==
    IF key \in DOMAIN store
    THEN [store EXCEPT ![key].val = @ + 1]
    ELSE (key :> [val |-> 1, exp |-> None]) @@ store

(* --------------------- SessionManager (session_manager.py) ------------ *)

session_timeout == 28800

max_sessions_per_user == 3

\* how many sessions are created at most
MaxSessions == 4

\* the horizon of the session clock, in minutes
MaxTimeSess == 480

\* the session clock advances by half a session_timeout
SessSteps == {(session_timeout \div 60) \div 2}

\* the values of uuid4, in the order they are drawn
SessionIds == <<"s1", "s2", "s3", "s4", "s5">>

session_key(session_id) == <<"session", session_id>>

user_sessions_key(user_id) == <<"user_sessions", user_id>>

\* created_at is the minute and, below the minute, the order of creation
Older(a, b) ==
    a.created_at[1] < b.created_at[1]
    \/ (a.created_at[1] = b.created_at[1] /\ a.created_at[2] < b.created_at[2])

\* returns the store and, in a tuple, the session data (empty: None)
get_session(store, t, session_id) ==
    LET live == Live(store, t)
        session_data == get(live, session_key(session_id))
    IN  IF session_data # <<>>
        THEN LET data == [session_data[1] EXCEPT !.last_activity = t]
             IN  [store |-> setex(live, session_key(session_id),
                                  session_timeout, data, t),
                  ret |-> <<data>>]
        ELSE [store |-> live, ret |-> <<>>]

invalidate_session(store, t, session_id) ==
    LET got == get_session(store, t, session_id)
    IN  IF got.ret # <<>>
        THEN [store |-> srem(delete(got.store, session_key(session_id)),
                             user_sessions_key(got.ret[1].user_id),
                             session_id),
              deleted |-> {session_id}]
        ELSE [store |-> got.store, deleted |-> {}]

invalidate_all_user_sessions(store, t, user_id) ==
    LET live == Live(store, t)
        session_ids == smembers(live, user_sessions_key(user_id))
    IN  [store |-> Filter(live,
                          DOMAIN live \
                              ({session_key(i) : i \in session_ids}
                               \cup {user_sessions_key(user_id)})),
         deleted |-> session_ids]

\* get_session for each of ids, in any order: the keys are distinct
RECURSIVE get_sessions(_, _, _)
get_sessions(store, t, ids) ==
    IF ids = {} THEN store
    ELSE LET i == CHOOSE x \in ids : TRUE
         IN  get_sessions(get_session(store, t, i).store, t, ids \ {i})

RECURSIVE invalidate_sessions(_, _, _)
invalidate_sessions(store, t, ids) ==
    IF ids = {} THEN store
    ELSE LET i == CHOOSE x \in ids : TRUE
         IN  invalidate_sessions(invalidate_session(store, t, i).store, t,
                                 ids \ {i})

enforce_max_sessions(store, t, user_id) ==
    LET live == Live(store, t)
        session_ids == smembers(live, user_sessions_key(user_id))
    IN  IF Cardinality(session_ids) > max_sessions_per_user
        THEN LET read == get_sessions(live, t, session_ids)
                 sessions_with_time ==
                     {i \in session_ids : session_key(i) \in DOMAIN read}
                 sessions_to_remove ==
                     Cardinality(sessions_with_time) - max_sessions_per_user
                 data(i) == read[session_key(i)].val
                 oldest ==
                     {i \in sessions_with_time :
                         Cardinality({j \in sessions_with_time :
                                         Older(data(j), data(i))})
                             < sessions_to_remove}
             IN  [store |-> invalidate_sessions(read, t, oldest),
                  deleted |-> oldest]
        ELSE [store |-> live, deleted |-> {}]

\* n: how many sessions were created before this one
create_session(store, t, user_id, session_id, n) ==
    LET session_data == [user_id |-> user_id, created_at |-> <<t, n>>,
                         last_activity |-> t]
        stored == setex(Live(store, t), session_key(session_id),
                        session_timeout, session_data, t)
        listed == expire(sadd(stored, user_sessions_key(user_id), session_id),
                         user_sessions_key(user_id), session_timeout, t)
    IN  enforce_max_sessions(listed, t, user_id)

\* the sessions of a user that get_session would return
Retrievable(store, t, user_id) ==
    {i \in {SessionIds[n] : n \in 1..Len(SessionIds)} :
        /\ session_key(i) \in DOMAIN Live(store, t)
        /\ store[session_key(i)].val.user_id = user_id}

CreateSession(user_id) ==
    /\ Len(out.created) < MaxSessions
    /\ LET session_id == SessionIds[Len(out.created) + 1]
           r == create_session(redis, now, user_id, session_id,
                               Len(out.created))
       IN  /\ redis' = r.store
           /\ out' = [out EXCEPT !.op = "create_session",
                                 !.arg = <<user_id>>,
                                 !.ret = <<session_id>>,
                                 !.created = Append(@, session_id),
                                 !.deleted = @ \cup r.deleted]
    /\ UNCHANGED <<now, job>>
    /\ UNCHANGED auth_vars

GetSession(session_id) ==
    /\ LET r == get_session(redis, now, session_id)
       IN  /\ redis' = r.store
           /\ out' = [out EXCEPT !.op = "get_session",
                                 !.arg = <<session_id>>,
                                 !.ret = r.ret]
    /\ UNCHANGED <<now, job>>
    /\ UNCHANGED auth_vars

InvalidateSession(session_id) ==
    /\ LET r == invalidate_session(redis, now, session_id)
       IN  /\ redis' = r.store
           /\ out' = [out EXCEPT !.op = "invalidate_session",
                                 !.arg = <<session_id>>,
                                 !.ret = <<>>,
                                 !.deleted = @ \cup r.deleted]
    /\ UNCHANGED <<now, job>>
    /\ UNCHANGED auth_vars

InvalidateAll(user_id) ==
    /\ LET r == invalidate_all_user_sessions(redis, now, user_id)
       IN  /\ redis' = r.store
           /\ out' = [out EXCEPT !.op = "invalidate_all_user_sessions",
                                 !.arg = <<user_id>>,
                                 !.ret = <<>>,
                                 !.deleted = @ \cup r.deleted]
    /\ UNCHANGED <<now, job>>
    /\ UNCHANGED auth_vars

\* the ids drawn so far
Created == {out.created[n] : n \in 1..Len(out.created)}

NextSession ==
    \/ CreateSession("alice")
    \/ \E i \in Created : GetSession(i)
    \/ \E i \in Created : InvalidateSession(i)
    \/ InvalidateAll("alice")
    \/ Clock(SessSteps, MaxTimeSess)

SpecSession == Init /\ [][NextSession]_vars

\* C26: when create_session has returned, the user has at most 3 retrievable
\* sessions, the new session is one of them, and every session that stopped
\* being retrievable in the call is older than every one that remains.
C26_SessionCap ==
    [][CreateSession("alice")
       => LET before == Retrievable(redis, now, "alice")
              after == Retrievable(redis', now, "alice")
          IN  /\ Cardinality(after) <= max_sessions_per_user
              /\ out'.ret[1] \in after
              /\ \A e \in before \ after, k \in after :
                     Older(redis[session_key(e)].val,
                           redis'[session_key(k)].val)]_vars

\* C27: when invalidate_all_user_sessions has returned, no session ever
\* created for the user is retrievable.
C27_InvalidateAll ==
    [][InvalidateAll("alice")
       => Retrievable(redis', now, "alice") = {}]_vars

(* ---------------- get_session interleaved (SpecSessionConc) ----------- *)

\* get_session up to its GET (line 51); None is returned at once
GetRead(w, session_id) ==
    /\ job[w] = NoJob
    /\ LET session_data == get(Live(redis, now), session_key(session_id))
       IN  IF session_data # <<>>
           THEN /\ job' = [job EXCEPT ![w] =
                              [op |-> "get_session", at |-> "setex",
                               key |-> session_key(session_id),
                               seen |-> session_data]]
                /\ UNCHANGED out
           ELSE /\ out' = [out EXCEPT !.op = "get_session",
                                      !.arg = <<session_id>>,
                                      !.ret = <<>>]
                /\ UNCHANGED job
    /\ UNCHANGED <<now, redis>>
    /\ UNCHANGED auth_vars

\* get_session from its SETEX (lines 57-62) to its return
GetWrite(w) ==
    /\ job[w].op = "get_session"
    /\ job[w].at = "setex"
    /\ LET data == [job[w].seen[1] EXCEPT !.last_activity = now]
       IN  /\ redis' = setex(Live(redis, now), job[w].key, session_timeout,
                             data, now)
           /\ out' = [out EXCEPT !.op = "get_session",
                                 !.arg = <<job[w].key[2]>>,
                                 !.ret = <<data>>]
    /\ job' = [job EXCEPT ![w] = NoJob]
    /\ UNCHANGED now
    /\ UNCHANGED auth_vars

NextSessionConc ==
    \/ CreateSession("alice")
    \/ \E w \in Workers, i \in Created : GetRead(w, i)
    \/ \E w \in Workers : GetWrite(w)
    \/ \E i \in Created : InvalidateSession(i)
    \/ InvalidateAll("alice")

SpecSessionConc == Init /\ [][NextSessionConc]_vars

\* C28: a session that invalidate_session or invalidate_all_user_sessions
\* has deleted is never retrievable again, for every interleaving of
\* get_session calls with the invalidation.
C28_NoResurrection ==
    \A i \in out.deleted : i \notin Retrievable(redis, now, "alice")

(* ------------------ rate limiting (middleware.py) --------------------- *)

rate_limits(endpoint) ==
    IF endpoint = "/auth/login" THEN [requests |-> 5, window |-> 300]
    ELSE IF endpoint = "/auth/register" THEN [requests |-> 2, window |-> 3600]
    ELSE [requests |-> 100, window |-> 60]

rate_limit_key(client_ip, endpoint) == <<"rate_limit", client_ip, endpoint>>

\* how many requests are admitted at most
MaxAdmitted == 4

\* the horizon of the rate-limit clock, in minutes
MaxTimeRate == 180

\* the rate-limit clock advances by half a window of /auth/register
RateSteps == {(rate_limits("/auth/register").window \div 60) \div 2}

\* check_rate_limit up to its GET (line 120); a request over the limit is
\* refused at once (lines 126-128)
RateRead(w, client_ip, endpoint) ==
    /\ job[w] = NoJob
    /\ Len(out.admitted) < MaxAdmitted
    /\ LET key == rate_limit_key(client_ip, endpoint)
           current == get(Live(redis, now), key)
       IN  IF current = <<>>
           THEN /\ job' = [job EXCEPT ![w] =
                              [op |-> "check_rate_limit", at |-> "setex",
                               key |-> key, seen |-> current]]
                /\ UNCHANGED out
           ELSE IF current[1] >= rate_limits(endpoint).requests
           THEN /\ out' = [out EXCEPT !.op = "check_rate_limit",
                                      !.arg = <<client_ip, endpoint>>,
                                      !.ret = <<FALSE>>]
                /\ UNCHANGED job
           ELSE /\ job' = [job EXCEPT ![w] =
                              [op |-> "check_rate_limit", at |-> "incr",
                               key |-> key, seen |-> current]]
                /\ UNCHANGED out
    /\ UNCHANGED <<now, redis>>
    /\ UNCHANGED auth_vars

\* check_rate_limit from its SETEX (line 123) or its INCR (line 131) to its
\* return
RateWrite(w) ==
    /\ job[w].op = "check_rate_limit"
    /\ redis' = IF job[w].at = "setex"
                THEN setex(Live(redis, now), job[w].key,
                           rate_limits(job[w].key[3]).window, 1, now)
                ELSE incr(Live(redis, now), job[w].key)
    /\ out' = [out EXCEPT !.op = "check_rate_limit",
                          !.arg = <<job[w].key[2], job[w].key[3]>>,
                          !.ret = <<TRUE>>,
                          !.admitted = Append(@, now)]
    /\ job' = [job EXCEPT ![w] = NoJob]
    /\ UNCHANGED now
    /\ UNCHANGED auth_vars

NextRate ==
    \/ \E w \in Workers : RateRead(w, "10.0.0.1", "/auth/register")
    \/ \E w \in Workers : RateWrite(w)
    \/ Clock(RateSteps, MaxTimeRate)

SpecRate == Init /\ [][NextRate]_vars

\* C29: within the window that starts at the first admitted request of an
\* address to an endpoint, at most the configured number of its requests
\* (2 for /auth/register) are admitted, for every interleaving.
C29_RateLimitCap ==
    out.admitted # <<>>
    => Cardinality({n \in 1..Len(out.admitted) :
                       out.admitted[n] < out.admitted[1]
                           + rate_limits("/auth/register").window \div 60})
           <= rate_limits("/auth/register").requests

\* C30: every counter key of check_rate_limit carries an expiry.
C30_CounterExpires ==
    \A k \in DOMAIN redis : k[1] = "rate_limit" => redis[k].exp # None

=============================================================================
